---- MODULE Spec2Model ----
(***************************************************************************)
(* Model of the asset QR-code server (src/server.js): the asset registry   *)
(* `assets`, the session table `sessions`, the snapshot file assets.json,  *)
(* and the Express handlers, split at their `await` points: Node runs one  *)
(* handler segment at a time and switches between requests only where a    *)
(* handler awaits (bcrypt.hash, bcrypt.compare, fs.writeFile).             *)
(***************************************************************************)
EXTENDS Integers, Sequences, FiniteSets, TLC

\* ---------------------------------------------------------------- bounds
MaxTime == 1        \* the clock Date.now() takes the values 0..MaxTime
MaxScans == 2       \* scan events recorded in the registry before scans stop

\* ------------------------------------------------------------ value sets
Undefined == "undefined"            \* JavaScript undefined / null / missing field
Names == {"a", "b"}                 \* asset names (req.params.id, body.name)
Salts == {"s1", "s2"}               \* bcrypt's per-call random salt
RandVals == {"r1", "r2"}            \* Math.random().toString(36).substring(2)
UserAgents == {Undefined, "UA"}     \* the user-agent header
NoToken == <<>>                     \* no such cookie in the request
NoSecret == <<>>                    \* the body has no such field
ScanParams == {Undefined, "true", "1"}  \* req.query.scan
Slots == {1, 2}                     \* requests suspended at an await at the same time

\* A secret is <<first 72 bytes, rest>>: bcrypt uses the first 72 bytes only.
\* "L" stands for a prefix of 72 bytes, which two longer secrets share.
EmptySecret == <<"", "">>
Secrets == {<<"pw", "">>, <<"pw2", "">>, <<"L", "x">>, <<"L", "y">>}
SecretInputs == Secrets \cup {EmptySecret, NoSecret}

ADMIN_ID == "admin"
ADMIN_PASSWORD == "password"
LoginIds == {ADMIN_ID, "guest"}
LoginPasswords == {ADMIN_PASSWORD, "wrong"}

VARIABLES
  assetsDefined, \* FALSE while the variable `assets` is still undefined (load not finished)
  assets,     \* the Map `assets`: its entries in insertion order
  sessions,   \* the Map `sessions`: a function from the live tokens to their payloads
  disk,       \* assets.json: [state: "absent" | "corrupt" | "ok", data: the serialized list of pairs]
  now,        \* the clock read by Date.now() and new Date()
  pending,    \* per slot, the continuation of a request suspended at an await
  worker      \* the service worker in a browser: [state, cache 'asset-qr-cache' in insertion order]

vars == <<assetsDefined, assets, sessions, disk, now, pending, worker>>

\* No service worker is registered and the cache does not exist.
NoWorker == [state |-> "none", cache |-> <<>>]

\* ------------------------------------------------------------ bcrypt
\* bcrypt.hash(plaintext, 10): salted one-way digest of the first 72 bytes.
BcryptHash(plaintext, salt) == [salt |-> salt, key |-> plaintext[1]]

\* BcryptCompare that reads the salt where the digest's key belongs.
BcryptCompareSalt(plaintext, digest) == digest.salt = plaintext[1]

\* bcrypt.compare(plaintext, digest).
BcryptCompare(plaintext, digest) == digest.key = plaintext[1]

\* ------------------------------------------------------------ sessions
AdminPayload == [authenticated |-> TRUE, assetId |-> Undefined, verified |-> FALSE]
AssetPayload(id) == [authenticated |-> FALSE, assetId |-> id, verified |-> TRUE]

\* generateSessionId(): random part followed by the clock, no lookup in `sessions`.
generateSessionId(r) == <<r, now>>

AllTokens == RandVals \X (0..MaxTime)
BogusToken == <<"r0", 0>>          \* a token that is never issued

\* SessionsSet that makes the token a key before its payload is stored.
SessionsSetKeyFirst(token, payload) ==
  [t \in DOMAIN sessions \cup {token} |->
     IF t = token THEN [authenticated |-> FALSE, assetId |-> Undefined, verified |-> FALSE]
     ELSE sessions[t]]

\* sessions.set(token, payload)
SessionsSet(token, payload) ==
  [t \in DOMAIN sessions \cup {token} |-> IF t = token THEN payload ELSE sessions[t]]

\* sessions.delete(token)
SessionsDelete(token) == [t \in DOMAIN sessions \ {token} |-> sessions[t]]

\* The Cookie header is a sequence of <<name, value>> pairs (<<>>: no header).
\* cookie.split(cname + '=')[1]?.split(';')[0]: the value that follows the
\* first occurrence of cname; the match is case sensitive, so 'sessionId='
\* does not occur inside 'assetSessionId='.
CookieValue(cookie, cname) ==
  LET Hits == {i \in 1..Len(cookie) : cookie[i][1] = cname}
  IN IF Hits = {} THEN NoToken
     ELSE cookie[CHOOSE i \in Hits : \A j \in Hits : i <= j][2]

\* isAuthenticated with the guard inverted for a request without the cookie.
isAuthenticatedOrNoCookie(cookie) ==
  LET sessionId == CookieValue(cookie, "sessionId")
  IN sessionId = NoToken \/ sessionId \in DOMAIN sessions

\* isAuthenticated(req): the sessionId cookie is a key of `sessions`.
isAuthenticated(cookie) ==
  LET sessionId == CookieValue(cookie, "sessionId")
  IN sessionId # NoToken /\ sessionId \in DOMAIN sessions

\* The Cookie headers a client may send: up to two cookies whose values are
\* live tokens or a token that was never issued.
CookieNames == {"sessionId", "assetSessionId"}
CookiePairs == CookieNames \X (DOMAIN sessions \cup {BogusToken})
Cookies == {<<>>} \cup {<<p>> : p \in CookiePairs}
             \cup {<<p, q>> : p \in CookiePairs, q \in CookiePairs}

\* The headers the requests of a behaviour carry: no cookie, or one cookie with
\* a live token under either name (every outcome of isAuthenticated, of the
\* asset-session check and of /logout is among them).
SentCookies ==
  {<<>>} \cup {<<<<"sessionId", t>>>> : t \in DOMAIN sessions}
         \cup {<<<<"assetSessionId", t>>>> : t \in DOMAIN sessions}

\* ------------------------------------------------------------ registry
\* An entry of the Map: the key, the identity of the record object it refers
\* to (oid) and the record's fields.
Keys == {assets[i].key : i \in 1..Len(assets)}

\* assets.has(key)
Has(key) == key \in Keys

IndexOf(key) == CHOOSE i \in 1..Len(assets) : assets[i].key = key

\* assets.get(key), for a key that is present
Get(key) == assets[IndexOf(key)]

\* MapSet that adds an entry whether or not the key is present.
MapSetAppend(entries, entry) == Append(entries, entry)

\* assets.set(key, entry): a present key keeps its position, a new key goes last.
MapSet(entries, entry) ==
  IF \E i \in 1..Len(entries) : entries[i].key = entry.key
  THEN [i \in 1..Len(entries) |-> IF entries[i].key = entry.key THEN entry ELSE entries[i]]
  ELSE Append(entries, entry)

\* MapDelete that removes nothing.
MapDeleteNothing(entries, key) == entries

\* assets.delete(key)
MapDelete(entries, key) == SelectSeq(entries, LAMBDA e : e.key # key)

\* Object identities in use: the records in the Map and those a suspended
\* request still refers to.  A new object takes the least identity not in use.
OidsInUse ==
  {assets[i].oid : i \in 1..Len(assets)} \cup {pending[s].oid : s \in Slots}
FreshOid == CHOOSE o \in 1..(Cardinality(Names) + Cardinality(Slots) + 1) :
              /\ o \notin OidsInUse
              /\ \A p \in 1..(o - 1) : p \in OidsInUse

\* The record without the Map key and the object identity, as JSON shows it.
Fields(e) ==
  [id |-> e.id, name |-> e.name, location |-> e.location,
   department |-> e.department, desktopSetupDate |-> e.desktopSetupDate,
   assetPassword |-> e.assetPassword, scanHistory |-> e.scanHistory]

\* Serialize that writes every record with an empty scan history.
SerializeWithoutHistory(entries) ==
  [i \in 1..Len(entries) |-> <<entries[i].key, [Fields(entries[i]) EXCEPT !.scanHistory = <<>>]>>]

\* JSON.stringify([...assets], null, 2): the list of [key, record] pairs.
Serialize(entries) ==
  [i \in 1..Len(entries) |-> <<entries[i].key, Fields(entries[i])>>]

\* new Map(JSON.parse(data)): fresh objects; a repeated key keeps its first
\* position and its last value.
RECURSIVE ParsePairs(_, _)
ParsePairs(pairs, oid) ==
  IF pairs = <<>> THEN <<>>
  ELSE LET n == Len(pairs)
           f == pairs[n][2]
           entry == [key |-> pairs[n][1], oid |-> oid, id |-> f.id, name |-> f.name,
                     location |-> f.location, department |-> f.department,
                     desktopSetupDate |-> f.desktopSetupDate,
                     assetPassword |-> f.assetPassword, scanHistory |-> f.scanHistory]
       IN MapSet(ParsePairs(SubSeq(pairs, 1, n - 1), oid + 1), entry)

\* loadAssets that starts with an empty Map whatever the file holds.
loadAssetsAlwaysFresh == <<>>

\* loadAssets(): the parsed file, or an empty Map when reading or parsing throws.
loadAssets == IF disk.state = "ok" THEN ParsePairs(disk.data, 1) ELSE <<>>

\* new Date().toISOString()
ToISOString(t) == <<"ISO", t>>

\* ------------------------------------------------------------ requests
NoFields == [id |-> "", location |-> "", department |-> "", desktopSetupDate |-> ""]

\* The continuation of a suspended request: where it resumes (pc) and the
\* locals it still uses.
Idle ==
  [pc |-> "idle", name |-> Undefined, oid |-> 0, fields |-> NoFields,
   secret |-> NoSecret, match |-> FALSE, data |-> <<>>]

FreeSlots == {s \in Slots : pending[s].pc = "idle"}

\* The least free slot takes the next suspended request.
NextSlot == CHOOSE s \in FreeSlots : \A u \in FreeSlots : s <= u

\* What a handler has done when it returns or reaches its first await: the
\* response sent (page "await": none yet), the two Maps, and the continuation
\* it left behind (Idle: none).
Answer(status, page) ==
  [status |-> status, page |-> page, assets |-> assets, sessions |-> sessions, then |-> Idle]

\* The server takes the step a handler's first segment describes.
Serve(result) ==
  /\ assets' = result.assets
  /\ sessions' = result.sessions
  /\ IF result.then.pc = "idle"
     THEN pending' = pending
     ELSE /\ FreeSlots # {}
          /\ pending' = [pending EXCEPT ![NextSlot] = result.then]
  /\ UNCHANGED <<worker, assetsDefined, disk, now>>

\* ------------------------------------------------------------ start
InitialDisks ==
  { [state |-> "absent", data |-> <<>>],
    [state |-> "corrupt", data |-> <<>>],
    [state |-> "ok", data |-> <<>>] }

Init ==
  /\ assetsDefined = FALSE
  /\ assets = <<>>
  /\ sessions = <<>>
  /\ disk \in InitialDisks
  /\ now = 0
  /\ pending = [s \in Slots |-> Idle]
  /\ worker = NoWorker

\* loadAssets().then(loadedAssets => { assets = loadedAssets; ... })
LoadAssetsThen ==
  /\ ~assetsDefined
  /\ assetsDefined' = TRUE
  /\ assets' = loadAssets
  /\ UNCHANGED <<worker, sessions, disk, now, pending>>

\* The process is stopped and started again: the module is evaluated anew
\* (`let assets`, `new Map()` for the sessions), assets.json stays as it is.
Restart ==
  /\ assetsDefined' = FALSE
  /\ assets' = <<>>
  /\ sessions' = <<>>
  /\ pending' = [s \in Slots |-> Idle]
  /\ UNCHANGED <<worker, disk, now>>

\* The clock advances between segments.
Tick ==
  /\ now < MaxTime
  /\ now' = now + 1
  /\ UNCHANGED <<worker, assetsDefined, assets, sessions, disk, pending>>

\* ------------------------------------------------------------ login, logout
\* PostLogin that tests the id only.
PostLoginIdOnly(id, password, r) ==
  IF id = ADMIN_ID
  THEN [Answer(302, "redirect:/") EXCEPT
          !.sessions = SessionsSet(generateSessionId(r), AdminPayload)]
  ELSE Answer(401, "login-failed")

\* GetLogout that empties the session table.
GetLogoutAll(cookie) ==
  LET sessionId == CookieValue(cookie, "sessionId")
  IN [Answer(302, "redirect:/") EXCEPT
        !.sessions = IF sessionId # NoToken THEN <<>> ELSE sessions]

\* POST /login
PostLogin(id, password, r) ==
  IF id = ADMIN_ID /\ password = ADMIN_PASSWORD
  THEN [Answer(302, "redirect:/") EXCEPT
          !.sessions = SessionsSet(generateSessionId(r), AdminPayload)]
  ELSE Answer(401, "login-failed")

Login(id, password, r) == Serve(PostLogin(id, password, r))

\* GET /logout
GetLogout(cookie) ==
  LET sessionId == CookieValue(cookie, "sessionId")
  IN [Answer(302, "redirect:/") EXCEPT
        !.sessions = IF sessionId # NoToken THEN SessionsDelete(sessionId) ELSE sessions]

Logout(cookie) == Serve(GetLogout(cookie))

\* GET /: the administrator's home page with `assets.size`, or the login form.
GetHome(cookie) ==
  IF ~isAuthenticated(cookie) THEN Answer(200, "login-form")
  ELSE IF ~assetsDefined THEN Answer(500, "TypeError")
  ELSE [status |-> 200, page |-> "home", size |-> Len(assets),
        assets |-> assets, sessions |-> sessions, then |-> Idle]

Home(cookie) == Serve(GetHome(cookie))

\* ------------------------------------------------------------ admin pages
\* ListRows from the last entry of the Map to the first.
ListRowsReversed(entries) ==
  [i \in 1..Len(entries) |->
     LET e == entries[Len(entries) + 1 - i]
     IN [id |-> e.id, name |-> e.name, location |-> e.location,
         link |-> e.key, scans |-> Len(e.scanHistory)]]

\* `for (const [id, asset] of assets)`: one table row per entry, in the
\* iteration order of the Map.
ListRows(entries) ==
  [i \in 1..Len(entries) |->
     [id |-> entries[i].id, name |-> entries[i].name, location |-> entries[i].location,
      link |-> entries[i].key, scans |-> Len(entries[i].scanHistory)]]

\* GET /list
GetList(cookie) ==
  IF ~isAuthenticated(cookie) THEN Answer(302, "redirect:/")
  ELSE IF ~assetsDefined THEN Answer(500, "TypeError")
  ELSE [status |-> 200, page |-> "list", rows |-> ListRows(assets),
        assets |-> assets, sessions |-> sessions, then |-> Idle]

List(cookie) == Serve(GetList(cookie))

\* GET /qr/all
GetQrAll(cookie) ==
  IF ~isAuthenticated(cookie) THEN Answer(302, "redirect:/")
  ELSE IF ~assetsDefined THEN Answer(0, "unhandled-rejection")
  ELSE Answer(200, "qr-all")

QrAll(cookie) == Serve(GetQrAll(cookie))

\* GET /change-password/:id
GetChangePassword(cookie, name) ==
  IF ~isAuthenticated(cookie) THEN Answer(302, "redirect:/")
  ELSE IF ~assetsDefined THEN Answer(500, "TypeError")
  ELSE IF ~Has(name) THEN Answer(404, "not-found")
  ELSE Answer(200, "change-password-form")

ChangePasswordForm(cookie, name) == Serve(GetChangePassword(cookie, name))

\* ------------------------------------------------------------ snapshot
WriteResults == {"ok", "fail", "partial"}

\* fs.writeFile(dataFile, data) once it has settled: written; failed before
\* the file was opened; or failed after the file was truncated.
WriteFile(data, wr) ==
  IF wr = "ok" THEN [state |-> "ok", data |-> data]
  ELSE IF wr = "fail" THEN disk
  ELSE [state |-> "corrupt", data |-> <<>>]

\* saveAssets(assets) up to its await: the snapshot is taken at the call.
SaveAssets(pc, name, entries) ==
  [Idle EXCEPT !.pc = pc, !.name = name, !.data = Serialize(entries)]

\* AfterSave with a saveAssets that lets the error of a failed write through
\* to the handler's catch block.
AfterSaveRethrow(p, wr) ==
  IF wr # "ok" THEN Answer(500, "error")
  ELSE IF p.pc = "delete:write" THEN Answer(302, "redirect:/list")
  ELSE IF p.pc = "change-password:write" THEN Answer(200, "password-updated")
  ELSE IF p.pc = "asset:write" THEN Answer(200, "detail")
  ELSE Answer(200, "qr-page")

\* The handler after `await saveAssets(assets)`: saveAssets catches the error
\* of a failed write and logs it, so the handler goes on to its response.
AfterSave(p, wr) ==
  IF p.pc = "delete:write" THEN Answer(302, "redirect:/list")
  ELSE IF p.pc = "change-password:write" THEN Answer(200, "password-updated")
  ELSE IF p.pc = "asset:write" THEN Answer(200, "detail")
  ELSE Answer(200, "qr-page")

\* ------------------------------------------------------------ POST /generate
\* `x || ''`
OrEmpty(x) == IF x = Undefined THEN "" ELSE x

BodyIds == {"", "ID1"}
BodyNames == Names \cup {""}
BodyLocations == {"", "LOC"}
BodyDepartments == {Undefined}
BodyDates == {Undefined}
Bodies ==
  [id : BodyIds, name : BodyNames, location : BodyLocations, department : BodyDepartments,
   desktopSetupDate : BodyDates, assetPassword : SecretInputs]

\* `!x` for a body field
Missing(x) == x \in {"", Undefined}
MissingSecret(x) == x \in {EmptySecret, NoSecret}

\* PostGenerate without the assets.has(name) test.
PostGenerateNoDuplicateCheck(cookie, body) ==
  IF ~isAuthenticated(cookie) THEN Answer(302, "redirect:/")
  ELSE IF Missing(body.id) \/ Missing(body.name) \/ Missing(body.location)
          \/ MissingSecret(body.assetPassword)
  THEN Answer(400, "missing-fields")
  ELSE IF ~assetsDefined THEN Answer(0, "unhandled-rejection")
  ELSE [Answer(0, "await") EXCEPT !.then =
          [Idle EXCEPT !.pc = "generate:hash", !.name = body.name,
             !.secret = body.assetPassword,
             !.fields = [id |-> body.id, location |-> body.location,
                         department |-> OrEmpty(body.department),
                         desktopSetupDate |-> OrEmpty(body.desktopSetupDate)]]]

\* PostGenerate with the assets.has(name) test ahead of the validation.
PostGenerateDuplicateFirst(cookie, body) ==
  IF ~isAuthenticated(cookie) THEN Answer(302, "redirect:/")
  ELSE IF assetsDefined /\ Has(body.name) THEN Answer(200, "already-exists")
  ELSE IF Missing(body.id) \/ Missing(body.name) \/ Missing(body.location)
          \/ MissingSecret(body.assetPassword)
  THEN Answer(400, "missing-fields")
  ELSE IF ~assetsDefined THEN Answer(0, "unhandled-rejection")
  ELSE [Answer(0, "await") EXCEPT !.then =
          [Idle EXCEPT !.pc = "generate:hash", !.name = body.name,
             !.secret = body.assetPassword,
             !.fields = [id |-> body.id, location |-> body.location,
                         department |-> OrEmpty(body.department),
                         desktopSetupDate |-> OrEmpty(body.desktopSetupDate)]]]

\* Up to the first await: guard, validation, duplicate check, bcrypt.hash started.
PostGenerate(cookie, body) ==
  IF ~isAuthenticated(cookie) THEN Answer(302, "redirect:/")
  ELSE IF Missing(body.id) \/ Missing(body.name) \/ Missing(body.location)
          \/ MissingSecret(body.assetPassword)
  THEN Answer(400, "missing-fields")
  ELSE IF ~assetsDefined THEN Answer(0, "unhandled-rejection")
  ELSE IF Has(body.name) THEN Answer(200, "already-exists")
  ELSE [Answer(0, "await") EXCEPT !.then =
          [Idle EXCEPT !.pc = "generate:hash", !.name = body.name,
             !.secret = body.assetPassword,
             !.fields = [id |-> body.id, location |-> body.location,
                         department |-> OrEmpty(body.department),
                         desktopSetupDate |-> OrEmpty(body.desktopSetupDate)]]]

Generate(cookie, body) == Serve(PostGenerate(cookie, body))

\* NewAsset that stores the secret as it was sent, without bcrypt.hash.
NewAssetPlaintext(p, salt) ==
  [key |-> p.name, oid |-> FreshOid, id |-> p.fields.id, name |-> p.name,
   location |-> p.fields.location, department |-> p.fields.department,
   desktopSetupDate |-> p.fields.desktopSetupDate,
   assetPassword |-> [salt |-> "plaintext", key |-> p.secret[1]], scanHistory |-> <<>>]

\* The record POST /generate builds once bcrypt.hash has settled.
NewAsset(p, salt) ==
  [key |-> p.name, oid |-> FreshOid, id |-> p.fields.id, name |-> p.name,
   location |-> p.fields.location, department |-> p.fields.department,
   desktopSetupDate |-> p.fields.desktopSetupDate,
   assetPassword |-> BcryptHash(p.secret, salt), scanHistory |-> <<>>]

\* assets.set(name, asset) of POST /generate
GenerateSet(p, salt) == MapSet(assets, NewAsset(p, salt))

\* bcrypt.hash settled: assets.set(name, asset), then saveAssets up to its await.
GenerateHashed(s, salt) ==
  /\ pending[s].pc = "generate:hash"
  /\ assets' = GenerateSet(pending[s], salt)
  /\ pending' = [pending EXCEPT ![s] =
         SaveAssets("generate:write", pending[s].name, GenerateSet(pending[s], salt))]
  /\ UNCHANGED <<worker, assetsDefined, sessions, disk, now>>

\* fs.writeFile settled (a failure is only logged); the page follows when
\* QRCode.toDataURL calls back.
GenerateWritten(s, wr) ==
  /\ pending[s].pc = "generate:write"
  /\ disk' = WriteFile(pending[s].data, wr)
  /\ assets' = AfterSave(pending[s], wr).assets
  /\ sessions' = AfterSave(pending[s], wr).sessions
  /\ pending' = [pending EXCEPT ![s] = Idle]
  /\ UNCHANGED <<worker, assetsDefined, now>>

\* ------------------------------------------------------------ POST /change-password/:id
\* Up to the first await: guard, lookup, validation, bcrypt.hash started.
PostChangePassword(cookie, name, newPassword) ==
  IF ~isAuthenticated(cookie) THEN Answer(302, "redirect:/")
  ELSE IF ~assetsDefined THEN Answer(0, "unhandled-rejection")
  ELSE IF ~Has(name) THEN Answer(404, "not-found")
  ELSE IF MissingSecret(newPassword) THEN Answer(400, "password-required")
  ELSE [Answer(0, "await") EXCEPT !.then =
          [Idle EXCEPT !.pc = "change-password:hash", !.name = name,
                       !.oid = Get(name).oid, !.secret = newPassword]]

ChangePassword(cookie, name, newPassword) == Serve(PostChangePassword(cookie, name, newPassword))

\* asset.assetPassword = <hash>, on the record object looked up before the await.
SetPassword(p, salt) ==
  [i \in 1..Len(assets) |->
     IF assets[i].oid = p.oid
     THEN [assets[i] EXCEPT !.assetPassword = BcryptHash(p.secret, salt)]
     ELSE assets[i]]

\* bcrypt.hash settled: the assignment, then saveAssets up to its await.
ChangePasswordHashed(s, salt) ==
  /\ pending[s].pc = "change-password:hash"
  /\ assets' = SetPassword(pending[s], salt)
  /\ pending' = [pending EXCEPT ![s] =
         SaveAssets("change-password:write", pending[s].name, SetPassword(pending[s], salt))]
  /\ UNCHANGED <<worker, assetsDefined, sessions, disk, now>>

\* fs.writeFile settled, then the success page.
ChangePasswordWritten(s, wr) ==
  /\ pending[s].pc = "change-password:write"
  /\ disk' = WriteFile(pending[s].data, wr)
  /\ assets' = AfterSave(pending[s], wr).assets
  /\ sessions' = AfterSave(pending[s], wr).sessions
  /\ pending' = [pending EXCEPT ![s] = Idle]
  /\ UNCHANGED <<worker, assetsDefined, now>>

\* ------------------------------------------------------------ GET /delete/:id
\* GetDelete that also drops the sessions issued for the asset.
GetDeleteDropsSessions(cookie, name) ==
  IF ~isAuthenticated(cookie) THEN Answer(302, "redirect:/")
  ELSE IF ~assetsDefined THEN Answer(0, "unhandled-rejection")
  ELSE IF ~Has(name) THEN Answer(404, "not-found")
  ELSE [Answer(0, "await") EXCEPT
          !.assets = MapDelete(assets, name),
          !.sessions = [t \in {u \in DOMAIN sessions : sessions[u].assetId # name} |-> sessions[t]],
          !.then = SaveAssets("delete:write", name, MapDelete(assets, name))]

\* Up to the await in saveAssets: guard, lookup, assets.delete, JSON.stringify.
GetDelete(cookie, name) ==
  IF ~isAuthenticated(cookie) THEN Answer(302, "redirect:/")
  ELSE IF ~assetsDefined THEN Answer(0, "unhandled-rejection")
  ELSE IF ~Has(name) THEN Answer(404, "not-found")
  ELSE [Answer(0, "await") EXCEPT
          !.assets = MapDelete(assets, name),
          !.then = SaveAssets("delete:write", name, MapDelete(assets, name))]

Delete(cookie, name) == Serve(GetDelete(cookie, name))

\* fs.writeFile settled, then the redirect to /list.
DeleteWritten(s, wr) ==
  /\ pending[s].pc = "delete:write"
  /\ disk' = WriteFile(pending[s].data, wr)
  /\ assets' = AfterSave(pending[s], wr).assets
  /\ sessions' = AfterSave(pending[s], wr).sessions
  /\ pending' = [pending EXCEPT ![s] = Idle]
  /\ UNCHANGED <<worker, assetsDefined, now>>

\* ------------------------------------------------------------ POST /asset/verify/:id
\* Up to the await: lookup, bcrypt.compare started on the hash stored now.
\* bcrypt.compare(undefined, hash) rejects and nothing catches it.
PostVerify(name, password) ==
  IF ~assetsDefined THEN Answer(0, "unhandled-rejection")
  ELSE IF ~Has(name) THEN Answer(404, "not-found")
  ELSE IF password = NoSecret THEN Answer(0, "unhandled-rejection")
  ELSE [Answer(0, "await") EXCEPT !.then =
          [Idle EXCEPT !.pc = "verify:compare", !.name = name, !.secret = password,
                       !.match = BcryptCompare(password, Get(name).assetPassword)]]

Verify(name, password) == Serve(PostVerify(name, password))

\* VerifySettled without the test of the comparison's outcome.
VerifySettledAlways(p, r) ==
  [Answer(302, "redirect:/asset?scan=true") EXCEPT
     !.sessions = SessionsSet(generateSessionId(r), AssetPayload(p.name))]

\* bcrypt.compare settled: a session for the asset and the redirect to its
\* detail view, or 401 with the form again.
VerifySettled(p, r) ==
  IF p.match
  THEN [Answer(302, "redirect:/asset?scan=true") EXCEPT
          !.sessions = SessionsSet(generateSessionId(r), AssetPayload(p.name))]
  ELSE Answer(401, "access-denied")

VerifyCompared(s, r) ==
  /\ pending[s].pc = "verify:compare"
  /\ sessions' = VerifySettled(pending[s], r).sessions
  /\ pending' = [pending EXCEPT ![s] = Idle]
  /\ UNCHANGED <<worker, assetsDefined, assets, disk, now>>

\* ScanFlag by truthiness instead of === 'true'.
ScanFlagTruthy(scan) == scan # Undefined

\* req.query.scan === 'true'
ScanFlag(scan) == scan = "true"

\* Device without the 'Unknown Device' default.
DeviceRaw(ua) == ua

\* PushScan by assignment instead of push.
PushScanOverwrite(entries, key, event) ==
  [i \in 1..Len(entries) |->
     IF entries[i].key = key
     THEN [entries[i] EXCEPT !.scanHistory = <<event>>]
     ELSE entries[i]]

\* isVerified without the comparison of the session's asset.
isVerifiedAnyAsset(cookie, name) ==
  LET assetSessionId == CookieValue(cookie, "assetSessionId")
  IN /\ assetSessionId # NoToken
     /\ assetSessionId \in DOMAIN sessions

\* ------------------------------------------------------------ GET /asset/:id
\* req.headers['user-agent'] || 'Unknown Device'
Device(ua) == IF ua = Undefined THEN "Unknown Device" ELSE ua

\* asset.scanHistory.push(event)
PushScan(entries, key, event) ==
  [i \in 1..Len(entries) |->
     IF entries[i].key = key
     THEN [entries[i] EXCEPT !.scanHistory = Append(@, event)]
     ELSE entries[i]]

\* sessions.has(assetSessionId) && sessions.get(assetSessionId).assetId === req.params.id
isVerified(cookie, name) ==
  LET assetSessionId == CookieValue(cookie, "assetSessionId")
  IN /\ assetSessionId # NoToken
     /\ assetSessionId \in DOMAIN sessions
     /\ sessions[assetSessionId].assetId = name

\* Up to the await in saveAssets: lookup, classification, then the challenge,
\* or the scan recording, or (without the scan flag) the page at once.
GetAsset(cookie, name, scan, ua) ==
  LET event == [timestamp |-> ToISOString(now), device |-> Device(ua)]
  IN IF ~assetsDefined THEN Answer(0, "unhandled-rejection")
     ELSE IF ~Has(name) THEN Answer(404, "not-found")
     ELSE IF ScanFlag(scan) /\ ~isAuthenticated(cookie) /\ ~isVerified(cookie, name)
     THEN Answer(200, "challenge")
     ELSE IF ScanFlag(scan)
     THEN [Answer(0, "await") EXCEPT
             !.assets = PushScan(assets, name, event),
             !.then = SaveAssets("asset:write", name, PushScan(assets, name, event))]
     ELSE Answer(200, "detail")

RECURSIVE SumScans(_)
SumScans(entries) ==
  IF entries = <<>> THEN 0 ELSE Len(Head(entries).scanHistory) + SumScans(Tail(entries))

\* Scan events in the registry; requests stop being sent at MaxScans.
TotalScans == SumScans(assets)

AssetDetail(cookie, name, scan, ua) ==
  /\ TotalScans < MaxScans
  /\ Serve(GetAsset(cookie, name, scan, ua))

\* fs.writeFile settled, then the detail page.
AssetWritten(s, wr) ==
  /\ pending[s].pc = "asset:write"
  /\ disk' = WriteFile(pending[s].data, wr)
  /\ assets' = AfterSave(pending[s], wr).assets
  /\ sessions' = AfterSave(pending[s], wr).sessions
  /\ pending' = [pending EXCEPT ![s] = Idle]
  /\ UNCHANGED <<worker, assetsDefined, now>>

\* ------------------------------------------------------------ GET /qr/:id, GET /api/asset/:id
\* QRCode.toDataURL / QRCode.toBuffer once settled: an image, or an error.
EncodeResults == {"ok", "error"}

\* GetQr without the lookup of the asset.
GetQrNoLookup(name, enc) ==
  IF ~assetsDefined THEN Answer(0, "unhandled-rejection")
  ELSE IF enc = "ok" THEN Answer(200, "qr-page")
  ELSE Answer(500, "qr-error")

\* GET /qr/:id: lookup, then the page with the code image (no session is asked for).
GetQr(name, enc) ==
  IF ~assetsDefined THEN Answer(0, "unhandled-rejection")
  ELSE IF ~Has(name) THEN Answer(404, "not-found")
  ELSE IF enc = "ok" THEN Answer(200, "qr-page")
  ELSE Answer(500, "qr-error")

Qr(name, enc) == Serve(GetQr(name, enc))

\* GET /qr/:id/download: lookup, then the image as an attachment.
GetQrDownload(name, enc) ==
  IF ~assetsDefined THEN Answer(0, "unhandled-rejection")
  ELSE IF ~Has(name) THEN Answer(404, "not-found")
  ELSE IF enc = "ok" THEN Answer(200, "qr-png")
  ELSE Answer(500, "qr-error")

QrDownload(name, enc) == Serve(GetQrDownload(name, enc))

\* GetApiAsset that leaves the hash of the secret out of the JSON.
GetApiAssetRedacted(name) ==
  IF ~assetsDefined THEN Answer(500, "TypeError")
  ELSE IF ~Has(name) THEN Answer(404, "not-found-json")
  ELSE [status |-> 200, page |-> "json",
        body |-> [Fields(Get(name)) EXCEPT !.assetPassword = [salt |-> "", key |-> ""]],
        assets |-> assets, sessions |-> sessions, then |-> Idle]

\* GET /api/asset/:id: lookup, then res.json(asset), the record as JSON.
GetApiAsset(name) ==
  IF ~assetsDefined THEN Answer(500, "TypeError")
  ELSE IF ~Has(name) THEN Answer(404, "not-found-json")
  ELSE [status |-> 200, page |-> "json", body |-> Fields(Get(name)),
        assets |-> assets, sessions |-> sessions, then |-> Idle]

ApiAsset(name) == Serve(GetApiAsset(name))

\* ------------------------------------------------------------ public/sw.js
\* What a browser receives for a handler's result: status, page and the
\* count the page shows.
HttpResponse(result) ==
  [status |-> result.status, page |-> result.page,
   size |-> IF "size" \in DOMAIN result THEN result.size ELSE 0]

\* The files express.static may find in public/ besides sw.js.
StaticUrls == {"/manifest.json", "/icon-192.png"}
PrecacheUrls == <<"/", "/manifest.json", "/icon-192.png">>
FetchedUrls == {"/", "/list"}
Methods == {"GET", "POST"}

\* fetch(url) answered by the server: a file of public/ that exists (files),
\* the 404 of a file that does not, or the page of GET / or GET /list.
Network(url, cookie, files) ==
  IF url \in StaticUrls
  THEN IF url \in files THEN [status |-> 200, page |-> "file", size |-> 0]
       ELSE [status |-> 404, page |-> "cannot-get", size |-> 0]
  ELSE IF url = "/" THEN HttpResponse(GetHome(cookie))
  ELSE HttpResponse(GetList(cookie))

\* caches.match(request): the first entry stored for the URL of a GET request.
CacheHits(url, method) ==
  {i \in 1..Len(worker.cache) : method = "GET" /\ worker.cache[i].url = url}
CacheMatch(url, method) ==
  worker.cache[CHOOSE i \in CacheHits(url, method) : \A j \in CacheHits(url, method) : i <= j].response

\* cache.addAll(urls): every URL is fetched; the entries are stored only if
\* every response is ok.
AddAll(cookie, files) ==
  LET fetched == [i \in 1..Len(PrecacheUrls) |->
                    [url |-> PrecacheUrls[i], response |-> Network(PrecacheUrls[i], cookie, files)]]
  IN IF \A i \in 1..Len(fetched) : fetched[i].response.status = 200
     THEN [state |-> "activated", cache |-> fetched]
     ELSE [state |-> "redundant", cache |-> <<>>]

\* navigator.serviceWorker.register('/sw.js') on a page load, then the install
\* event: waitUntil(caches.open(...).then(cache => cache.addAll([...]))).
WorkerInstall(cookie, files) ==
  /\ worker.state # "activated"
  /\ worker' = AddAll(cookie, files)
  /\ UNCHANGED <<assetsDefined, assets, sessions, disk, now, pending>>

\* fetch(event.request) answered by the server, for the URLs of FetchedUrls:
\* the page of GET / or GET /list; no route takes another method on them.
Origin(url, method, cookie) ==
  IF method # "GET" THEN [status |-> 404, page |-> "cannot-post", size |-> 0]
  ELSE IF url = "/" THEN HttpResponse(GetHome(cookie))
  ELSE HttpResponse(GetList(cookie))

\* FetchResponse that asks the network first.
FetchResponseNetworkFirst(url, method, cookie) == Origin(url, method, cookie)

\* The fetch event of a page the worker controls:
\* caches.match(event.request).then(response => response || fetch(event.request))
FetchResponse(url, method, cookie) ==
  IF worker.state = "activated" /\ CacheHits(url, method) # {}
  THEN CacheMatch(url, method)
  ELSE Origin(url, method, cookie)

\* A page fetches url: the request reaches the server only when the worker
\* does not answer it from the cache.
WorkerFetch(url, method, cookie) ==
  IF worker.state = "activated" /\ CacheHits(url, method) # {} THEN UNCHANGED vars
  ELSE IF method # "GET" THEN UNCHANGED vars
  ELSE IF url = "/" THEN Home(cookie)
  ELSE List(cookie)

\* ------------------------------------------------------------ specifications
\* What the requests of a behaviour send.  The claims quantify over the full
\* sets (Cookies, Bodies, SecretInputs, UserAgents, Salts, RandVals); the
\* behaviours are built from these smaller ones.
SentBodies(names) ==
  {[id |-> "ID1", name |-> n, location |-> "LOC", department |-> Undefined,
    desktopSetupDate |-> Undefined,
    assetPassword |-> IF n = "a" THEN <<"pw", "">> ELSE <<"L", "x">>] : n \in names}
    \cup {[id |-> "ID1", name |-> "a", location |-> "", department |-> Undefined,
           desktopSetupDate |-> Undefined, assetPassword |-> <<"pw", "">>]}
SentSecrets == {<<"L", "y">>, EmptySecret}
TriedSecrets == {<<"pw", "">>, <<"L", "x">>, NoSecret}
SentAgents == {"UA"}
SentWrites == {"ok"}
SentSalts == {"s1"}
SentRands == {"r1"}
HotNames == {"a"}

\* No request is suspended at an await.
Quiet == FreeSlots = Slots

\* Requests arrive one at a time: the next one after the response to the last.
Next ==
  \/ LoadAssetsThen
  \/ Tick
  \/ Quiet /\ \E id \in LoginIds, password \in LoginPasswords, r \in SentRands :
       Login(id, password, r)
  \/ Quiet /\ \E cookie \in SentCookies : Logout(cookie)
  \/ Quiet /\ \E cookie \in SentCookies : List(cookie)
  \/ Quiet /\ \E cookie \in SentCookies : QrAll(cookie)
  \/ Quiet /\ \E cookie \in SentCookies, name \in Names : ChangePasswordForm(cookie, name)
  \/ Quiet /\ \E cookie \in SentCookies, body \in SentBodies(Names) : Generate(cookie, body)
  \/ \E s \in Slots, salt \in SentSalts : GenerateHashed(s, salt)
  \/ \E s \in Slots, wr \in SentWrites : GenerateWritten(s, wr)
  \/ Quiet /\ \E cookie \in SentCookies, name \in Names, newPassword \in SentSecrets :
       ChangePassword(cookie, name, newPassword)
  \/ \E s \in Slots, salt \in SentSalts : ChangePasswordHashed(s, salt)
  \/ \E s \in Slots, wr \in SentWrites : ChangePasswordWritten(s, wr)
  \/ Quiet /\ \E cookie \in SentCookies, name \in Names : Delete(cookie, name)
  \/ \E s \in Slots, wr \in SentWrites : DeleteWritten(s, wr)
  \/ Quiet /\ \E name \in Names, password \in TriedSecrets : Verify(name, password)
  \/ \E s \in Slots, r \in SentRands : VerifyCompared(s, r)
  \/ Quiet /\ \E cookie \in SentCookies, name \in Names, scan \in ScanParams, ua \in SentAgents :
       AssetDetail(cookie, name, scan, ua)
  \/ \E s \in Slots, wr \in SentWrites : AssetWritten(s, wr)
  \/ Quiet /\ \E name \in Names, enc \in EncodeResults : Qr(name, enc)
  \/ Quiet /\ \E name \in Names, enc \in EncodeResults : QrDownload(name, enc)
  \/ Quiet /\ \E name \in Names : ApiAsset(name)
  \/ Quiet /\ \E cookie \in SentCookies : Home(cookie)

Spec == Init /\ [][Next]_vars

\* Requests overlap: a request arrives while others are suspended at an await.
\* All of them address the one asset name of HotNames.
NextRace ==
  \/ LoadAssetsThen
  \/ Tick
  \/ \E id \in LoginIds, password \in LoginPasswords, r \in SentRands : Login(id, password, r)
  \/ \E cookie \in SentCookies : Logout(cookie)
  \/ \E cookie \in SentCookies : List(cookie)
  \/ \E cookie \in SentCookies : QrAll(cookie)
  \/ \E cookie \in SentCookies, name \in HotNames : ChangePasswordForm(cookie, name)
  \/ \E cookie \in SentCookies, body \in SentBodies(HotNames) : Generate(cookie, body)
  \/ \E s \in Slots, salt \in SentSalts : GenerateHashed(s, salt)
  \/ \E s \in Slots, wr \in SentWrites : GenerateWritten(s, wr)
  \/ \E cookie \in SentCookies, name \in HotNames, newPassword \in SentSecrets :
       ChangePassword(cookie, name, newPassword)
  \/ \E s \in Slots, salt \in SentSalts : ChangePasswordHashed(s, salt)
  \/ \E s \in Slots, wr \in SentWrites : ChangePasswordWritten(s, wr)
  \/ \E cookie \in SentCookies, name \in HotNames : Delete(cookie, name)
  \/ \E s \in Slots, wr \in SentWrites : DeleteWritten(s, wr)
  \/ \E name \in HotNames, password \in TriedSecrets : Verify(name, password)
  \/ \E s \in Slots, r \in SentRands : VerifyCompared(s, r)
  \/ \E cookie \in SentCookies, name \in HotNames, scan \in ScanParams, ua \in SentAgents :
       AssetDetail(cookie, name, scan, ua)
  \/ \E s \in Slots, wr \in SentWrites : AssetWritten(s, wr)
  \/ \E name \in HotNames, enc \in EncodeResults : Qr(name, enc)
  \/ \E name \in HotNames, enc \in EncodeResults : QrDownload(name, enc)
  \/ \E name \in HotNames : ApiAsset(name)
  \/ \E cookie \in SentCookies : Home(cookie)

SpecRace == Init /\ [][NextRace]_vars

\* Requests arrive one at a time and address the one asset name of HotNames;
\* a write of the snapshot may fail, and the process may be restarted.
NextFaulty ==
  \/ LoadAssetsThen
  \/ Tick
  \/ Quiet /\ Restart
  \/ Quiet /\ \E r \in SentRands : Login(ADMIN_ID, ADMIN_PASSWORD, r)
  \/ Quiet /\ \E cookie \in SentCookies : Logout(cookie)
  \/ Quiet /\ \E cookie \in SentCookies : List(cookie)
  \/ Quiet /\ \E cookie \in SentCookies : QrAll(cookie)
  \/ Quiet /\ \E cookie \in SentCookies, name \in HotNames : ChangePasswordForm(cookie, name)
  \/ Quiet /\ \E cookie \in SentCookies, body \in SentBodies(HotNames) : Generate(cookie, body)
  \/ \E s \in Slots, salt \in SentSalts : GenerateHashed(s, salt)
  \/ \E s \in Slots, wr \in WriteResults : GenerateWritten(s, wr)
  \/ Quiet /\ \E cookie \in SentCookies, name \in HotNames, newPassword \in SentSecrets :
       ChangePassword(cookie, name, newPassword)
  \/ \E s \in Slots, salt \in SentSalts : ChangePasswordHashed(s, salt)
  \/ \E s \in Slots, wr \in WriteResults : ChangePasswordWritten(s, wr)
  \/ Quiet /\ \E cookie \in SentCookies, name \in HotNames : Delete(cookie, name)
  \/ \E s \in Slots, wr \in WriteResults : DeleteWritten(s, wr)
  \/ Quiet /\ \E name \in HotNames, password \in TriedSecrets : Verify(name, password)
  \/ \E s \in Slots, r \in SentRands : VerifyCompared(s, r)
  \/ Quiet /\ \E cookie \in SentCookies, name \in HotNames, scan \in ScanParams, ua \in SentAgents :
       AssetDetail(cookie, name, scan, ua)
  \/ \E s \in Slots, wr \in WriteResults : AssetWritten(s, wr)
  \/ Quiet /\ \E name \in HotNames, enc \in EncodeResults : Qr(name, enc)
  \/ Quiet /\ \E name \in HotNames, enc \in EncodeResults : QrDownload(name, enc)
  \/ Quiet /\ \E name \in HotNames : ApiAsset(name)
  \/ Quiet /\ \E cookie \in SentCookies : Home(cookie)

SpecFaulty == Init /\ [][NextFaulty]_vars

\* A browser with the service worker: requests arrive one at a time, the
\* administrator logs in and out and creates the asset of HotNames, the worker
\* is installed at some page load and the pages fetch through it.
NextWorker ==
  \/ LoadAssetsThen
  \/ Tick
  \/ Quiet /\ \E r \in SentRands : Login(ADMIN_ID, ADMIN_PASSWORD, r)
  \/ Quiet /\ \E cookie \in SentCookies : Logout(cookie)
  \/ Quiet /\ \E cookie \in SentCookies, body \in SentBodies(HotNames) : Generate(cookie, body)
  \/ \E s \in Slots, salt \in SentSalts : GenerateHashed(s, salt)
  \/ \E s \in Slots, wr \in SentWrites : GenerateWritten(s, wr)
  \/ Quiet /\ \E cookie \in SentCookies, name \in HotNames : Delete(cookie, name)
  \/ \E s \in Slots, wr \in SentWrites : DeleteWritten(s, wr)
  \/ Quiet /\ \E cookie \in SentCookies, files \in SUBSET StaticUrls : WorkerInstall(cookie, files)
  \/ Quiet /\ \E url \in FetchedUrls, method \in Methods, cookie \in SentCookies :
       WorkerFetch(url, method, cookie)

SpecWorker == Init /\ [][NextWorker]_vars

TypeOK ==
  /\ assetsDefined \in BOOLEAN
  /\ now \in 0..MaxTime
  /\ DOMAIN sessions \subseteq AllTokens
  /\ Len(assets) <= Cardinality(Names)
  /\ TotalScans <= MaxScans

\* ------------------------------------------------------------ claims
\* Session evidence of a request, read off the Cookie header and `sessions`.
Carried(cookie) == {cookie[i][2] : i \in 1..Len(cookie)} \cap DOMAIN sessions

\* The administrator carrier holds a token of an AdminSession.
AdminAuthenticated(cookie) ==
  LET t == CookieValue(cookie, "sessionId")
  IN t \in DOMAIN sessions /\ sessions[t] = AdminPayload

\* The asset carrier holds a token of an AssetVerifiedSession scoped to name.
AssetVerified(cookie, name) ==
  LET t == CookieValue(cookie, "assetSessionId")
  IN t \in DOMAIN sessions /\ sessions[t] = AssetPayload(name)

\* No administrator token, or one that is not in the session table.
NoAdminToken(cookie) == CookieValue(cookie, "sessionId") \notin DOMAIN sessions

\* Neither carrier holds evidence for a view of name.
Anonymous(cookie, name) ==
  LET t == CookieValue(cookie, "assetSessionId")
  IN /\ NoAdminToken(cookie)
     /\ t \notin DOMAIN sessions \/ sessions[t].assetId # name

\* The handler returned without changing a Map and without leaving a
\* continuation behind (so that nothing is written to the snapshot).
NoEffect(result) ==
  /\ result.assets = assets
  /\ result.sessions = sessions
  /\ result.then = Idle

Refused(result) ==
  /\ result.status = 302
  /\ result.page = "redirect:/"
  /\ NoEffect(result)

RequiredPresent(body) ==
  /\ body.id # "" /\ body.name # "" /\ body.location # ""
  /\ body.assetPassword \notin {EmptySecret, NoSecret}

\* C1: a request without a live administrator token to list, create, delete,
\* changeSecret (GET or POST) or /qr/all is redirected to the login page and
\* changes neither Map nor starts a write of the snapshot, whatever else it sends.
C1_AnonymousAdminOperationsRefused ==
  \A cookie \in Cookies :
    NoAdminToken(cookie) =>
      /\ Refused(GetList(cookie))
      /\ Refused(GetQrAll(cookie))
      /\ \A name \in Names :
           /\ Refused(GetDelete(cookie, name))
           /\ Refused(GetChangePassword(cookie, name))
           /\ \A newPassword \in SecretInputs :
                Refused(PostChangePassword(cookie, name, newPassword))
      /\ \A body \in Bodies : Refused(PostGenerate(cookie, body))

\* C1 witness: both assets exist, an administrator is logged in, and a request
\* with a token that was never issued is refused the deletion of an asset.
C1_Witness ==
  /\ Keys = Names
  /\ \E t \in DOMAIN sessions : sessions[t] = AdminPayload
  /\ Refused(GetDelete(<<<<"sessionId", BogusToken>>>>, "a"))

\* C2: a caller whose tokens all come from asset-secret verification is refused
\* list, create, delete and changeSecret, in whichever carrier it presents them.
C2_AssetSessionsGrantNoAdminOperation ==
  \A cookie \in Cookies :
    (Carried(cookie) # {} /\ \A t \in Carried(cookie) : sessions[t].verified) =>
      /\ Refused(GetList(cookie))
      /\ \A name \in Names :
           /\ Refused(GetDelete(cookie, name))
           /\ \A newPassword \in SecretInputs :
                Refused(PostChangePassword(cookie, name, newPassword))
      /\ \A body \in Bodies : Refused(PostGenerate(cookie, body))

\* C3: a caller without administrator session that presents an
\* AssetVerifiedSession scoped to A on a scan-flag detail request for B # A gets
\* the secret challenge, and B's scan history stays as it is.
C3_ForeignAssetSessionIsChallenged ==
  \A cookie \in Cookies, name \in Keys, ua \in UserAgents :
    (/\ Carried(cookie) # {}
     /\ \A t \in Carried(cookie) : sessions[t].verified /\ sessions[t].assetId # name) =>
      /\ GetAsset(cookie, name, "true", ua).page = "challenge"
      /\ NoEffect(GetAsset(cookie, name, "true", ua))

\* C4: a scan-flag detail request for an existing asset from a caller with no
\* live administrator token and no asset session for that asset gets the secret
\* challenge: no scan event, no session, no write of the snapshot.
C4_AnonymousScanIsChallenged ==
  \A cookie \in Cookies, name \in Keys, ua \in UserAgents :
    Anonymous(cookie, name) =>
      /\ GetAsset(cookie, name, "true", ua).status = 200
      /\ GetAsset(cookie, name, "true", ua).page = "challenge"
      /\ NoEffect(GetAsset(cookie, name, "true", ua))

\* C4 witness: asset b exists, a session verified for asset a is live, and the
\* request that presents it for b is answered with the challenge.
C4_Witness ==
  /\ "b" \in Keys
  /\ \E t \in DOMAIN sessions :
       /\ sessions[t] = AssetPayload("a")
       /\ GetAsset(<<<<"assetSessionId", t>>>>, "b", "true", "UA").page = "challenge"

\* C5: a scan-flag detail request for an existing asset from an administrator
\* or from a caller verified for that asset is not challenged; it appends one
\* event (the current time, the request's device) to that asset's history and
\* changes no other record, and the page follows the write of the snapshot.
C5_AuthorisedScanRecordsOneEvent ==
  \A cookie \in Cookies, name \in Keys, ua \in UserAgents :
    (AdminAuthenticated(cookie) \/ AssetVerified(cookie, name)) =>
      LET result == GetAsset(cookie, name, "true", ua)
          event == [timestamp |-> ToISOString(now),
                    device |-> IF ua = Undefined THEN "Unknown Device" ELSE ua]
      IN /\ result.page = "await"
         /\ result.then.pc = "asset:write"
         /\ result.then.data = Serialize(result.assets)
         /\ result.sessions = sessions
         /\ Len(result.assets) = Len(assets)
         /\ \A i \in 1..Len(assets) :
              result.assets[i] =
                IF assets[i].key = name
                THEN [assets[i] EXCEPT !.scanHistory = Append(assets[i].scanHistory, event)]
                ELSE assets[i]

\* C5 witness: with both assets in the registry and an administrator logged
\* in, a scan of asset a has been recorded and its write is pending.
C5_Witness ==
  /\ Keys = Names
  /\ \E t \in DOMAIN sessions : sessions[t] = AdminPayload
  /\ Len(Get("a").scanHistory) = 1
  /\ \E s \in Slots : pending[s].pc = "asset:write" /\ pending[s].name = "a"

\* C6: a detail request without the scan flag for an existing asset gets the
\* detail page whatever session evidence it carries, and changes nothing.
C6_ViewWithoutScanFlagChangesNothing ==
  \A cookie \in Cookies, name \in Keys, scan \in ScanParams \ {"true"}, ua \in UserAgents :
    /\ GetAsset(cookie, name, scan, ua).status = 200
    /\ GetAsset(cookie, name, scan, ua).page = "detail"
    /\ NoEffect(GetAsset(cookie, name, scan, ua))

\* C6 witness: an asset with a recorded scan, sessions of both kinds live, no
\* request suspended: the plain view of that asset is served.
C6_Witness ==
  /\ Quiet
  /\ \E name \in Keys : Len(Get(name).scanHistory) > 0
  /\ \E t \in DOMAIN sessions : sessions[t] = AdminPayload
  /\ \E t \in DOMAIN sessions : sessions[t].verified

\* C7: verify for an existing asset.  A secret that matches the stored hash
\* sets one session, scoped to that asset, under the token drawn (one more
\* entry, for a draw that is not a key of the table) and redirects to the
\* detail view with the scan flag; a secret that does not match gets 401 with
\* the form and leaves the table as it is.  Neither request nor continuation
\* touches the registry.
C7_VerifyIssuesOneScopedSession ==
  /\ \A name \in Keys, password \in Secrets \cup {EmptySecret} :
       LET result == PostVerify(name, password)
           digest == Get(name).assetPassword
       IN /\ result.assets = assets
          /\ result.sessions = sessions
          /\ result.then.pc = "verify:compare"
          /\ result.then.name = name
          /\ result.then.match = (BcryptHash(password, digest.salt) = digest)
  /\ \A s \in Slots, r \in RandVals :
       pending[s].pc = "verify:compare" =>
         LET result == VerifySettled(pending[s], r)
             token == generateSessionId(r)
         IN /\ result.assets = assets
            /\ result.then = Idle
            /\ IF pending[s].match
               THEN /\ result.status = 302
                    /\ result.page = "redirect:/asset?scan=true"
                    /\ DOMAIN result.sessions = DOMAIN sessions \cup {token}
                    /\ result.sessions[token] =
                         [authenticated |-> FALSE, assetId |-> pending[s].name, verified |-> TRUE]
                    /\ \A t \in DOMAIN sessions \ {token} : result.sessions[t] = sessions[t]
                    /\ token \notin DOMAIN sessions =>
                         Cardinality(DOMAIN result.sessions) = Cardinality(DOMAIN sessions) + 1
               ELSE /\ result.status = 401
                    /\ result.page = "access-denied"
                    /\ result.sessions = sessions

\* C7 witness: a session issued by an earlier verify for asset a is live while
\* a verify with a secret that does not match awaits its comparison.
C7_Witness ==
  /\ \E t \in DOMAIN sessions : sessions[t] = AssetPayload("a")
  /\ \E s \in Slots : pending[s].pc = "verify:compare" /\ ~pending[s].match

\* C8: an administrator's create with every required field present, for a name
\* that is in the registry, is answered "already exists" and leaves the
\* registry (the record, its secret hash, its history, the size) as it is.
C8_DuplicateCreateIsConflict ==
  \A cookie \in Cookies, body \in Bodies :
    (AdminAuthenticated(cookie) /\ RequiredPresent(body) /\ body.name \in Keys) =>
      /\ PostGenerate(cookie, body).status = 200
      /\ PostGenerate(cookie, body).page = "already-exists"
      /\ NoEffect(PostGenerate(cookie, body))

\* C8 witness: asset a has a recorded scan and an administrator is logged in,
\* whose create for the name a is answered "already exists".
C8_Witness ==
  /\ "a" \in Keys
  /\ Len(Get("a").scanHistory) > 0
  /\ \E t \in DOMAIN sessions, body \in Bodies :
       /\ sessions[t] = AdminPayload
       /\ body.name = "a"
       /\ PostGenerate(<<<<"sessionId", t>>>>, body).page = "already-exists"

\* C9: the insertion of a create that passed its checks adds one record for
\* its name, with an empty scan history and the hash of the secret sent, makes
\* the registry one larger and leaves the records that were there as they are.
C9_CreateInsertsOneRecord ==
  \A s \in Slots, salt \in Salts :
    pending[s].pc = "generate:hash" =>
      LET after == GenerateSet(pending[s], salt)
      IN /\ Len(after) = Len(assets) + 1
         /\ \A i \in 1..Len(assets) : after[i] = assets[i]
         /\ after[Len(after)].key = pending[s].name
         /\ after[Len(after)].scanHistory = <<>>
         /\ after[Len(after)].assetPassword = BcryptHash(pending[s].secret, salt)

\* A step in which a scan request for the asset called name recorded its event.
ScanRecorded(name) ==
  \E s \in Slots :
    /\ pending[s].pc = "idle"
    /\ pending'[s].pc = "asset:write"
    /\ pending'[s].name = name

\* C10: with scan requests for one asset overlapping in any order, every step
\* of a scan request extends the record's history by its one event, stamped
\* with the time of the step, every other step leaves the history of a record
\* that stays in the registry as it is, and timestamps never decrease along it.
C10_ConcurrentScansAllRecorded ==
  [][\A i \in 1..Len(assets), j \in 1..Len(assets') :
       assets[i].oid = assets'[j].oid =>
         LET before == assets[i].scanHistory
             after == assets'[j].scanHistory
         IN /\ IF ScanRecorded(assets[i].key)
               THEN /\ Len(after) = Len(before) + 1
                    /\ SubSeq(after, 1, Len(before)) = before
                    /\ after[Len(after)].timestamp = ToISOString(now)
               ELSE after = before
            /\ \A k \in 1..(Len(after) - 1) :
                 after[k].timestamp[2] <= after[k + 1].timestamp[2]]_vars

\* C10 witness: two scan requests for asset a are both suspended in their
\* write of the snapshot, and the history of a holds the events of both.
C10_Witness ==
  /\ "a" \in Keys
  /\ Len(Get("a").scanHistory) = 2
  /\ \A s \in Slots : pending[s].pc = "asset:write" /\ pending[s].name = "a"

\* C11: the deletion of asset n by an administrator removes the record of n
\* and nothing else; while n is not in the registry every detail request for n
\* is answered 404 and changes nothing; the deletion of a name that is not in
\* the registry is answered 404 and leaves the registry as it is.
C11_DeletedAssetIsNotFound ==
  assetsDefined =>
    \A cookie \in Cookies, name \in Names :
      /\ (AdminAuthenticated(cookie) /\ name \in Keys) =>
           LET result == GetDelete(cookie, name)
           IN /\ \A i \in 1..Len(result.assets) : result.assets[i].key # name
              /\ Len(result.assets) = Len(assets) - 1
              /\ \A i \in 1..Len(assets) :
                   assets[i].key # name =>
                     \E j \in 1..Len(result.assets) : result.assets[j] = assets[i]
              /\ result.then.pc = "delete:write"
              /\ result.then.data = Serialize(result.assets)
      /\ name \notin Keys =>
           /\ \A scan \in ScanParams, ua \in UserAgents :
                /\ GetAsset(cookie, name, scan, ua).status = 404
                /\ NoEffect(GetAsset(cookie, name, scan, ua))
           /\ AdminAuthenticated(cookie) =>
                /\ GetDelete(cookie, name).status = 404
                /\ NoEffect(GetDelete(cookie, name))

\* C11 witness: asset a, which had a recorded scan on the snapshot, has been
\* deleted while b stays, and the write of the new snapshot is pending.
C11_Witness ==
  /\ Keys = {"b"}
  /\ disk.state = "ok"
  /\ \E i \in 1..Len(disk.data) :
       disk.data[i][1] = "a" /\ Len(disk.data[i][2].scanHistory) > 0
  /\ \E s \in Slots : pending[s].pc = "delete:write" /\ pending[s].name = "a"

\* C12: changeSecret by an administrator is answered 404 for a name that is
\* not in the registry and 400 for an empty or missing new secret, changing
\* nothing; otherwise it replaces the secret hash of that record only, after
\* which the new secret verifies and a different secret that verified before
\* does not, and the other fields, the history and the other records are kept.
C12_ChangeSecretReplacesOnlyTheHash ==
  /\ assetsDefined =>
       \A cookie \in Cookies, name \in Names :
         AdminAuthenticated(cookie) =>
           IF name \notin Keys
           THEN \A newPassword \in SecretInputs :
                  /\ PostChangePassword(cookie, name, newPassword).status = 404
                  /\ NoEffect(PostChangePassword(cookie, name, newPassword))
           ELSE \A newPassword \in {EmptySecret, NoSecret} :
                  /\ PostChangePassword(cookie, name, newPassword).status = 400
                  /\ NoEffect(PostChangePassword(cookie, name, newPassword))
  /\ \A s \in Slots, salt \in Salts :
       pending[s].pc = "change-password:hash" =>
         LET after == SetPassword(pending[s], salt)
         IN /\ Len(after) = Len(assets)
            /\ \A i \in 1..Len(assets) :
                 IF assets[i].key = pending[s].name
                 THEN /\ after[i] = [assets[i] EXCEPT !.assetPassword = after[i].assetPassword]
                      /\ BcryptCompare(pending[s].secret, after[i].assetPassword)
                      /\ \A old \in Secrets :
                           (old # pending[s].secret
                              /\ BcryptCompare(old, assets[i].assetPassword)) =>
                             ~BcryptCompare(old, after[i].assetPassword)
                 ELSE after[i] = assets[i]

\* C13: the hash stored by a create was made of secret s, and a submission u
\* verifies against it if and only if u = s.
C13_VerifyAcceptsOnlyTheSecret ==
  \A s \in Slots, salt \in Salts, u \in Secrets :
    pending[s].pc = "generate:hash" =>
      (BcryptCompare(u, NewAsset(pending[s], salt).assetPassword) <=> u = pending[s].secret)

\* C14: while the registry is still unset no request has been served: the
\* session table, which only a served login or verification fills, is empty.
C14_NoRequestBeforeLoad == ~assetsDefined => sessions = <<>>

WritePcs == {"generate:write", "change-password:write", "delete:write", "asset:write"}

\* C16: whether the write of the snapshot succeeds or fails, the handler that
\* awaited it answers the same and touches neither Map; the registry is still
\* the one the snapshot was taken of, and a write that failed before the file
\* was opened leaves assets.json as it was.
C16_FailedWriteIsOnlyLogged ==
  \A s \in Slots, wr \in WriteResults :
    pending[s].pc \in WritePcs =>
      /\ AfterSave(pending[s], wr).status = AfterSave(pending[s], "ok").status
      /\ AfterSave(pending[s], wr).page = AfterSave(pending[s], "ok").page
      /\ AfterSave(pending[s], wr).status \in {200, 302}
      /\ NoEffect(AfterSave(pending[s], wr))
      /\ pending[s].data = Serialize(assets)
      /\ wr = "fail" => WriteFile(pending[s].data, wr) = disk

\* C16 witness: asset a was created and scanned and every write of the
\* snapshot failed: the registry holds the scan, the file does not exist.
C16_Witness ==
  /\ Quiet
  /\ disk.state = "absent"
  /\ "a" \in Keys
  /\ Len(Get("a").scanHistory) > 0

\* C17: POST /login with the configured id and the configured password sets one
\* administrator session under the token drawn (one more entry, for a draw
\* that is not a key of the table) and redirects; with any other pair it
\* answers 401 and leaves the table as it is.  The registry is never touched.
C17_LoginOnlyWithTheConfiguredPair ==
  \A id \in LoginIds, password \in LoginPasswords, r \in RandVals :
    LET result == PostLogin(id, password, r)
        token == generateSessionId(r)
    IN /\ result.assets = assets
       /\ result.then = Idle
       /\ IF id = "admin" /\ password = "password"
          THEN /\ result.status = 302
               /\ DOMAIN result.sessions = DOMAIN sessions \cup {token}
               /\ result.sessions[token] =
                    [authenticated |-> TRUE, assetId |-> Undefined, verified |-> FALSE]
               /\ \A t \in DOMAIN sessions \ {token} : result.sessions[t] = sessions[t]
               /\ token \notin DOMAIN sessions =>
                    Cardinality(DOMAIN result.sessions) = Cardinality(DOMAIN sessions) + 1
          ELSE /\ result.status = 401
               /\ result.sessions = sessions

\* C17 witness: an administrator session and a session of asset a are live and
\* the registry holds an asset: a login with a wrong password is answered 401.
C17_Witness ==
  /\ Keys # {}
  /\ \E t \in DOMAIN sessions : sessions[t] = AdminPayload
  /\ \E t \in DOMAIN sessions : sessions[t].verified
  /\ PostLogin("admin", "wrong", "r2").status = 401

\* C18: GET /logout removes the session under the token of the sessionId
\* cookie and no other; without the cookie, or with a token that is not in the
\* table, it removes none.  In the state after a step that removed a token,
\* the administrator pages refuse that token and every other session is kept.
C18_LogoutDestroysThePresentedSession ==
  /\ [](\A cookie \in Cookies :
          LET t == CookieValue(cookie, "sessionId")
              result == GetLogout(cookie)
          IN /\ result.status = 302
             /\ result.assets = assets
             /\ result.then = Idle
             /\ IF t \in DOMAIN sessions
                THEN /\ DOMAIN result.sessions = DOMAIN sessions \ {t}
                     /\ \A u \in DOMAIN result.sessions : result.sessions[u] = sessions[u]
                ELSE result.sessions = sessions)
  /\ [][\A t \in DOMAIN sessions \ DOMAIN sessions' :
          /\ DOMAIN sessions' = DOMAIN sessions \ {t}
          /\ \A u \in DOMAIN sessions' : sessions'[u] = sessions[u]
          /\ Refused(GetList(<<<<"sessionId", t>>>>))'
          /\ \A name \in Names : Refused(GetDelete(<<<<"sessionId", t>>>>, name))']_vars

\* C18 witness: two administrator sessions from two logins are live, one of
\* which the logout with its token would remove.
C18_Witness ==
  \E t \in DOMAIN sessions, u \in DOMAIN sessions :
    /\ t # u
    /\ sessions[t] = AdminPayload
    /\ sessions[u] = AdminPayload
    /\ DOMAIN GetLogout(<<<<"sessionId", t>>>>).sessions = DOMAIN sessions \ {t}

\* C19: whichever token the next login or verification draws, it is not a key
\* of the session table, so that sessions.set adds an entry and replaces none.
C19_DrawnTokenIsNeverLive ==
  \A r \in RandVals : generateSessionId(r) \notin DOMAIN sessions

\* The scan history of the asset called name, seen in a registry.
HistoryIn(entries, name) ==
  entries[CHOOSE i \in 1..Len(entries) : entries[i].key = name].scanHistory

\* C20: for an asset whose stored hash was made of the secret pw.  With an
\* empty history: the view without cookie and without scan flag shows the
\* page and the one with the scan flag the challenge, both leaving the history
\* empty; verify with pw matches and, once compared, issues a session for the
\* asset and redirects; the detail request with that session and the scan flag
\* makes the history 1 long.  With a history of length 1: verify with another
\* secret is answered 401 and touches no history; after a login the detail
\* request with the administrator session and the scan flag is not challenged
\* and makes the history 2 long.
C20_EndToEndScanSequence ==
  \A name \in Keys, ua \in UserAgents :
    Get(name).assetPassword.key = "pw" =>
      /\ Len(Get(name).scanHistory) = 0 =>
           /\ GetAsset(<<>>, name, Undefined, ua).page = "detail"
           /\ NoEffect(GetAsset(<<>>, name, Undefined, ua))
           /\ GetAsset(<<>>, name, "true", ua).page = "challenge"
           /\ NoEffect(GetAsset(<<>>, name, "true", ua))
           /\ \A t \in DOMAIN sessions :
                sessions[t] = AssetPayload(name) =>
                  LET result == GetAsset(<<<<"assetSessionId", t>>>>, name, "true", ua)
                  IN /\ result.page = "await"
                     /\ result.then.pc = "asset:write"
                     /\ Len(HistoryIn(result.assets, name)) = 1
      /\ PostVerify(name, <<"pw", "">>).then.pc = "verify:compare"
      /\ PostVerify(name, <<"pw", "">>).then.match
      /\ PostVerify(name, <<"pw", "">>).assets = assets
      /\ \A s \in Slots, r \in RandVals :
           (pending[s].pc = "verify:compare" /\ pending[s].name = name) =>
             LET result == VerifySettled(pending[s], r)
             IN /\ result.assets = assets
                /\ IF pending[s].match
                   THEN /\ result.page = "redirect:/asset?scan=true"
                        /\ result.sessions[generateSessionId(r)] = AssetPayload(name)
                   ELSE /\ result.status = 401
                        /\ result.sessions = sessions
      /\ Len(Get(name).scanHistory) = 1 =>
           /\ \A wrong \in Secrets \ {<<"pw", "">>} :
                /\ ~PostVerify(name, wrong).then.match
                /\ PostVerify(name, wrong).assets = assets
           /\ \A r \in RandVals :
                PostLogin(ADMIN_ID, ADMIN_PASSWORD, r).sessions[generateSessionId(r)] = AdminPayload
           /\ \A t \in DOMAIN sessions :
                sessions[t] = AdminPayload =>
                  LET result == GetAsset(<<<<"sessionId", t>>>>, name, "true", ua)
                  IN /\ result.page = "await"
                     /\ result.then.pc = "asset:write"
                     /\ Len(HistoryIn(result.assets, name)) = 2

\* C20 witness: the end of the sequence: asset a, with the hash of pw, has two
\* scan events, the first recorded with the asset session and the second with
\* the administrator session, whose writes have completed.
C20_Witness ==
  /\ Quiet
  /\ "a" \in Keys
  /\ Get("a").assetPassword.key = "pw"
  /\ Len(Get("a").scanHistory) = 2
  /\ \E t \in DOMAIN sessions : sessions[t] = AssetPayload("a")
  /\ \E t \in DOMAIN sessions : sessions[t] = AdminPayload
  /\ disk.state = "ok" /\ disk.data = Serialize(assets)

\* C21: POST /generate from an administrator with id, name, location or asset
\* secret missing or empty is answered 400 with the missing-fields page; it
\* changes neither Map and starts no write of the snapshot, also when the name
\* sent is a key of the registry, and also before the registry is loaded.
C21_IncompleteCreateIsRejected ==
  \A cookie \in Cookies, body \in Bodies :
    AdminAuthenticated(cookie) /\ ~RequiredPresent(body) =>
      /\ PostGenerate(cookie, body).status = 400
      /\ PostGenerate(cookie, body).page = "missing-fields"
      /\ NoEffect(PostGenerate(cookie, body))

\* C21 witness: an administrator is logged in, asset a is in the registry and
\* on the snapshot, and a create for the name a without a location is rejected.
C21_Witness ==
  /\ Has("a") /\ disk.data = Serialize(assets) /\ Quiet
  /\ \E cookie \in SentCookies :
       /\ AdminAuthenticated(cookie)
       /\ PostGenerate(cookie, [id |-> "ID1", name |-> "a", location |-> "",
                                department |-> Undefined, desktopSetupDate |-> Undefined,
                                assetPassword |-> <<"pw", "">>]).status = 400

\* C22: POST /asset/verify/:id for an asset in the registry, sent without the
\* password field, is answered as a rejection (400, or 401 with the form
\* again), creates no session and changes no record.
C22_VerifyWithoutSecretIsRejected ==
  \A name \in Names :
    assetsDefined /\ Has(name) =>
      /\ PostVerify(name, NoSecret).status \in {400, 401}
      /\ NoEffect(PostVerify(name, NoSecret))

\* The handler answered 404 and changed nothing.
AnsweredNotFound(result) ==
  /\ result.status = 404
  /\ NoEffect(result)

\* C23: once the registry is loaded, every request addressed to a name that is
\* not a key of it is answered 404 and changes neither Map nor starts a write:
\* the detail view with any scan parameter, verify with any secret, the JSON
\* record, the code image and its download, whatever cookies are sent, and for
\* an administrator delete and both change-password requests.
C23_AbsentNameIsNotFound ==
  assetsDefined =>
    \A cookie \in Cookies, name \in Names :
      name \notin Keys =>
        /\ \A scan \in ScanParams, ua \in UserAgents :
             AnsweredNotFound(GetAsset(cookie, name, scan, ua))
        /\ \A password \in SecretInputs : AnsweredNotFound(PostVerify(name, password))
        /\ AnsweredNotFound(GetApiAsset(name))
        /\ \A enc \in EncodeResults :
             /\ AnsweredNotFound(GetQr(name, enc))
             /\ AnsweredNotFound(GetQrDownload(name, enc))
        /\ AdminAuthenticated(cookie) =>
             /\ AnsweredNotFound(GetDelete(cookie, name))
             /\ AnsweredNotFound(GetChangePassword(cookie, name))
             /\ \A newPassword \in SecretInputs :
                  AnsweredNotFound(PostChangePassword(cookie, name, newPassword))

\* C23 witness: asset a has been deleted while b stays; an administrator
\* session and a session of asset a are live, and a request for a gets 404.
C23_Witness ==
  /\ assetsDefined /\ Keys = {"b"} /\ Quiet
  /\ \E t \in DOMAIN sessions : sessions[t] = AdminPayload
  /\ \E t \in DOMAIN sessions : sessions[t] = AssetPayload("a")
  /\ GetQr("a", "ok").status = 404

\* C24: in every step that leaves the name n a key of the registry (no
\* deletion of n), the scan history under n after the step begins with the
\* history under n before it: no event is removed, reordered or modified.
C24_ScanHistoryIsAppendOnly ==
  [][\A name \in Names :
       (name \in Keys /\ name \in Keys') =>
         LET before == HistoryIn(assets, name)
             after == HistoryIn(assets', name)
         IN /\ Len(before) <= Len(after)
            /\ SubSeq(after, 1, Len(before)) = before]_vars

\* C25: in every reachable state no two entries of the registry have the same
\* key and the name field of each record is the key it is stored under; and
\* no step changes the name field of a record object that stays in the registry.
C25_OneRecordPerName ==
  /\ [](/\ \A i, j \in 1..Len(assets) : assets[i].key = assets[j].key => i = j
        /\ \A i \in 1..Len(assets) : assets[i].name = assets[i].key)
  /\ [][\A i \in 1..Len(assets), j \in 1..Len(assets') :
          assets[i].oid = assets'[j].oid => assets'[j].name = assets[i].name]_vars

\* C25 witness: two overlapping creates for the name a have both run their
\* assets.set and the registry holds one record.
C25_Witness ==
  /\ Len(assets) = 1
  /\ \A s \in Slots : pending[s].pc = "generate:write" /\ pending[s].name = "a"

\* What bcrypt.hash can return for the secrets a request can send.
Digests == {BcryptHash(plaintext, salt) : plaintext \in Secrets, salt \in Salts}

\* C26: the assetPassword of every record in the registry, in assets.json and
\* in a snapshot about to be written is a bcrypt digest, not the secret as it
\* was sent; the record a create inserts and the record a change-password
\* updates hold the digest bcrypt.hash made of the secret of that request.
C26_OnlyTheHashIsStored ==
  /\ \A i \in 1..Len(assets) : assets[i].assetPassword \in Digests
  /\ \A i \in 1..Len(disk.data) : disk.data[i][2].assetPassword \in Digests
  /\ \A s \in Slots : \A i \in 1..Len(pending[s].data) :
       pending[s].data[i][2].assetPassword \in Digests
  /\ \A s \in Slots, salt \in Salts :
       /\ pending[s].pc = "generate:hash" =>
            LET after == GenerateSet(pending[s], salt)
            IN \A i \in 1..Len(after) :
                 after[i].key = pending[s].name =>
                   after[i].assetPassword = BcryptHash(pending[s].secret, salt)
       /\ pending[s].pc = "change-password:hash" =>
            LET after == SetPassword(pending[s], salt)
            IN \A i \in 1..Len(after) :
                 after[i].oid = pending[s].oid =>
                   after[i].assetPassword = BcryptHash(pending[s].secret, salt)

\* C26 witness: asset a was created with the secret pw, its secret was then
\* changed, and the snapshot with the new digest is on disk.
C26_Witness ==
  /\ Has("a") /\ Quiet
  /\ Get("a").assetPassword = BcryptHash(<<"L", "y">>, "s1")
  /\ disk.state = "ok" /\ disk.data = Serialize(assets)

\* C27: no step removes from the session table a token that stands for a
\* verification of an asset, whatever cookie the request of the step carries
\* (GET /logout included); and while the asset is in the registry a scan-flag
\* detail request carrying the token is not challenged.
C27_AssetSessionIsNeverDestroyed ==
  [][\A t \in DOMAIN sessions, name \in Names :
       sessions[t] = AssetPayload(name) =>
         /\ t \in DOMAIN sessions'
         /\ Has(name) =>
              \A ua \in UserAgents :
                GetAsset(<<<<"assetSessionId", t>>>>, name, "true", ua).page # "challenge"]_vars

\* The name column of the rows of a list page.
RowNames(rows) == [i \in 1..Len(rows) |-> rows[i].name]

\* C28: GET /list by an administrator shows one row per record, in the order
\* of the registry, and that order is the order of insertion: a step that
\* inserts a name that was not a key (a first creation, or a creation after a
\* deletion) puts its row after all the rows there were, and every other step
\* keeps the rows that stay in the order they had.
C28_ListIsInInsertionOrder ==
  [][/\ \A cookie \in Cookies :
          (assetsDefined /\ AdminAuthenticated(cookie)) =>
            /\ GetList(cookie).status = 200
            /\ GetList(cookie).rows = ListRows(assets)
            /\ NoEffect(GetList(cookie))
     /\ LET before == RowNames(ListRows(assets))
            after == RowNames(ListRows(assets'))
            created == {name \in Names : ~Has(name) /\ \E i \in 1..Len(after) : after[i] = name}
        IN IF created # {}
           THEN \E name \in created : after = Append(before, name)
           ELSE after = SelectSeq(before, LAMBDA n : \E i \in 1..Len(after) : after[i] = n)]_vars

\* C28 witness: asset b is listed before asset a, which is the later creation:
\* the snapshot on disk holds b alone and the write that adds a is pending.
C28_Witness ==
  /\ RowNames(ListRows(assets)) = <<"b", "a">>
  /\ disk.state = "ok" /\ Len(disk.data) = 1 /\ disk.data[1][1] = "b"
  /\ \E s \in Slots : pending[s].pc = "generate:write" /\ pending[s].name = "a"

\* C29: with creates for one name overlapping in any order, the step in which
\* a create runs its insertion leaves every record that was in the registry
\* in it, unchanged: a record (and its hash) inserted by an earlier create is
\* not replaced by a later one.
C29_ConcurrentCreatesInsertOnce ==
  [][\A s \in Slots :
       (pending[s].pc = "generate:hash" /\ pending'[s].pc = "generate:write") =>
         \A i \in 1..Len(assets) : \E j \in 1..Len(assets') : assets'[j] = assets[i]]_vars

\* C30: with mutating requests overlapping in any order and every write of
\* the snapshot succeeding, whenever no request is suspended any more
\* assets.json holds the snapshot of the registry as it is now (or nothing has
\* been written yet and the registry is empty).
C30_SnapshotEqualsRegistryWhenQuiet ==
  (Quiet /\ assetsDefined) =>
    \/ disk.state = "ok" /\ disk.data = Serialize(assets)
    \/ disk.state # "ok" /\ assets = <<>>

\* C31: with a change-password request overlapping deletes and creates of the
\* same name in any order: in the step in which it assigns the new hash, the
\* name is a key of the registry and the record stored under it then holds the
\* hash of the secret the request sent; and in the step in which it answers
\* with the success page the name is still a key of the registry.
C31_ChangeSecretActsOnTheStoredRecord ==
  [][\A s \in Slots :
       /\ (pending[s].pc = "change-password:hash" /\ pending'[s].pc = "change-password:write") =>
            /\ \E i \in 1..Len(assets') : assets'[i].key = pending[s].name
            /\ \E salt \in Salts :
                 \A i \in 1..Len(assets') :
                   assets'[i].key = pending[s].name =>
                     assets'[i].assetPassword = BcryptHash(pending[s].secret, salt)
       /\ (pending[s].pc = "change-password:write" /\ pending'[s].pc = "idle"
           /\ \E wr \in WriteResults : AfterSave(pending[s], wr).page = "password-updated") =>
            Has(pending[s].name)]_vars

\* C32: with a verify request overlapping deletes and change-password requests
\* for the same name in any order: in the step in which it adds the session
\* of the asset to the session table, the name is a key of the registry and
\* the secret it sent matches the hash stored under the name at that moment.
C32_SessionIssuedForTheStoredSecret ==
  [][\A s \in Slots :
       (pending[s].pc = "verify:compare" /\ pending'[s].pc = "idle"
        /\ \E t \in DOMAIN sessions' :
             /\ sessions'[t] = AssetPayload(pending[s].name)
             /\ (t \notin DOMAIN sessions \/ sessions[t] # sessions'[t])) =>
         /\ Has(pending[s].name)
         /\ BcryptCompare(pending[s].secret, Get(pending[s].name).assetPassword)]_vars

\* C33: GET /delete/:id and POST /change-password/:id leave the session table
\* as it is, in their first segment and in every later one; so a token that
\* stands for a verification of asset n keeps doing so while the secret of n
\* is changed or n is deleted and created again, and whenever n is in the
\* registry a scan-flag detail request carrying it records the scan unchallenged.
C33_DeleteAndChangeSecretKeepSessions ==
  /\ [](\A cookie \in Cookies, name \in Names :
          /\ GetDelete(cookie, name).sessions = sessions
          /\ \A newPassword \in SecretInputs :
               PostChangePassword(cookie, name, newPassword).sessions = sessions
          /\ \A t \in DOMAIN sessions :
               (sessions[t] = AssetPayload(name) /\ Has(name)) =>
                 \A ua \in UserAgents :
                   GetAsset(<<<<"assetSessionId", t>>>>, name, "true", ua).then.pc = "asset:write")
  /\ [][\A s \in Slots :
          (\/ pending[s].pc \in {"change-password:hash", "change-password:write", "delete:write"}
           \/ pending'[s].pc \in {"change-password:hash", "delete:write"}) /\ pending'[s] # pending[s]
            => sessions' = sessions]_vars

\* C33 witness: a session of asset a is live, issued before the pending
\* change-password request began; the record of a holds the new hash already.
C33_Witness ==
  /\ Has("a")
  /\ Get("a").assetPassword = BcryptHash(<<"L", "y">>, "s1")
  /\ \E s \in Slots : pending[s].pc = "change-password:write" /\ pending[s].name = "a"
  /\ \E t \in DOMAIN sessions : sessions[t] = AssetPayload("a")

\* What a response lets its receiver see: status, page, and the rows or the
\* count a page shows.
Visible(result) ==
  <<result.status, result.page,
    IF "rows" \in DOMAIN result THEN result.rows ELSE <<>>,
    IF "size" \in DOMAIN result THEN result.size ELSE 0>>

\* The entry stored under a name, if any.
StoredUnder(entries, name) == SelectSeq(entries, LAMBDA e : e.key = name)

C35_ApiAssetIsAPureLookup ==
  \A name \in Names :
    (assetsDefined /\ Has(name)) =>
      /\ GetApiAsset(name).status = 200
      /\ GetApiAsset(name).body = Fields(Get(name))
      /\ GetApiAsset(name).body.assetPassword = Get(name).assetPassword
      /\ GetApiAsset(name).body.scanHistory = Get(name).scanHistory
      /\ NoEffect(GetApiAsset(name))

\* C35 witness: asset a has a recorded scan, no session is live, and the JSON
\* of a shows its hash and its history.
C35_Witness ==
  /\ assetsDefined /\ Has("a") /\ Quiet
  /\ sessions = <<>>
  /\ Len(Get("a").scanHistory) > 0
  /\ GetApiAsset("a").body.assetPassword = BcryptHash(<<"pw", "">>, "s1")

\* The handler either sent its response and is done, or sent none yet and
\* left a continuation that waits for a pending operation.
Answered(result) ==
  IF result.then = Idle THEN result.status # 0 ELSE result.status = 0

\* C36: once the registry is loaded, every request gets one response: each
\* handler's first segment, for every input, either responds or suspends at
\* an await, and each suspended request responds when the operation it waits
\* for has settled, whether it succeeded or failed.
C36_EveryRequestIsAnswered ==
  assetsDefined =>
    /\ \A cookie \in Cookies :
         /\ Answered(GetHome(cookie)) /\ Answered(GetList(cookie))
         /\ Answered(GetQrAll(cookie)) /\ Answered(GetLogout(cookie))
         /\ \A name \in Names :
              /\ Answered(GetDelete(cookie, name))
              /\ Answered(GetChangePassword(cookie, name))
              /\ \A newPassword \in SecretInputs :
                   Answered(PostChangePassword(cookie, name, newPassword))
              /\ \A scan \in ScanParams, ua \in UserAgents :
                   Answered(GetAsset(cookie, name, scan, ua))
         /\ \A body \in Bodies : Answered(PostGenerate(cookie, body))
    /\ \A id \in LoginIds, password \in LoginPasswords, r \in RandVals :
         Answered(PostLogin(id, password, r))
    /\ \A name \in Names :
         /\ Answered(GetApiAsset(name))
         /\ \A enc \in EncodeResults :
              Answered(GetQr(name, enc)) /\ Answered(GetQrDownload(name, enc))
         /\ \A password \in SecretInputs : Answered(PostVerify(name, password))
    /\ \A s \in Slots :
         /\ pending[s].pc \in WritePcs =>
              \A wr \in WriteResults : AfterSave(pending[s], wr).status # 0
         /\ pending[s].pc = "verify:compare" =>
              \A r \in RandVals : VerifySettled(pending[s], r).status # 0

\* The Map that loadAssets builds from a file that saveAssets wrote of entries.
SavedAndLoaded(entries) == ParsePairs(WriteFile(Serialize(entries), "ok").data, 1)

\* Two Maps with the same keys in the same order and, key by key, records
\* with the same fields (the record objects themselves may differ).
SameRegistry(m1, m2) ==
  /\ Len(m1) = Len(m2)
  /\ \A i \in 1..Len(m1) : m1[i].key = m2[i].key /\ Fields(m1[i]) = Fields(m2[i])

Payloads == {AdminPayload} \cup {AssetPayload(name) : name \in Names}

\* C38: with requests overlapping in any order, every token that is a key of
\* the session table has the whole payload of a login or of a verification,
\* and so has every token in the table a login or a settled comparison would
\* leave: no state shows a token with a payload that is missing or partial.
C38_SessionsAreCreatedWhole ==
  /\ \A t \in DOMAIN sessions : sessions[t] \in Payloads
  /\ \A r \in RandVals :
       LET after == PostLogin(ADMIN_ID, ADMIN_PASSWORD, r).sessions
       IN /\ after[generateSessionId(r)] = AdminPayload
          /\ \A t \in DOMAIN after : after[t] \in Payloads
  /\ \A s \in Slots, r \in RandVals :
       (pending[s].pc = "verify:compare" /\ pending[s].match) =>
         LET after == VerifySettled(pending[s], r).sessions
         IN /\ after[generateSessionId(r)] = AssetPayload(pending[s].name)
            /\ \A t \in DOMAIN after : after[t] \in Payloads

\* C38 witness: while a verification with the right secret is waiting for
\* bcrypt.compare, a scan request has looked up the administrator's token and
\* is waiting for its write.
C38_Witness ==
  /\ \E s \in Slots : pending[s].pc = "verify:compare" /\ pending[s].match
  /\ \E s \in Slots : pending[s].pc = "asset:write"
  /\ \E t \in DOMAIN sessions : sessions[t] = AdminPayload

\* C39: the worker answers a GET whose URL has an entry in the cache with
\* that entry, whatever cookie the request carries, and passes every other
\* request to the server; the cache holds nothing until an install whose
\* three fetches all succeeded and then the entries for '/', the manifest and
\* the icon, and no later step changes it: the page cached for '/' at install
\* is what every later GET / receives, whatever the session table has become.
C39_WorkerServesTheInstallTimeCache ==
  /\ [](\A url \in FetchedUrls, method \in Methods, cookie \in Cookies :
          IF worker.state = "activated" /\ method = "GET"
             /\ \E i \in 1..Len(worker.cache) : worker.cache[i].url = url
          THEN \E i \in 1..Len(worker.cache) :
                 /\ worker.cache[i].url = url
                 /\ FetchResponse(url, method, cookie) = worker.cache[i].response
          ELSE FetchResponse(url, method, cookie) = Origin(url, method, cookie))
  /\ [](IF worker.state = "activated"
        THEN [i \in 1..Len(worker.cache) |-> worker.cache[i].url] = PrecacheUrls
        ELSE worker.cache = <<>>)
  /\ [][worker'.cache # worker.cache =>
          worker.cache = <<>> /\ worker.state # "activated" /\ worker'.state = "activated"]_vars

\* C39 witness: the worker was installed while the administrator was logged
\* in; the administrator has logged out, no session is live, and GET / without
\* a cookie still receives the administrator's home page from the cache.
C39_Witness ==
  /\ worker.state = "activated"
  /\ sessions = <<>>
  /\ FetchResponse("/", "GET", <<>>).page = "home"
  /\ Origin("/", "GET", <<>>).page = "login-form"

====
